---- MODULE Spec2Model ----
(***************************************************************************)
(* chartype: candle and ticker field identifiers, their validation, their  *)
(* JSON / text codec and the operations that use them.                     *)
(*                                                                         *)
(* Byte slices and Go strings are TLA+ strings (read with Len, SubSeq and  *)
(* \o); a nil []byte is the empty string.  Inputs are ASCII.               *)
(***************************************************************************)
EXTENDS Integers, Sequences, FiniteSets, TLC

VARIABLES cf, tf, call, gs, mem

vars == <<cf, tf, call, gs, mem>>

(***************************************************************************)
(* Bounds of the model.                                                    *)
(***************************************************************************)
\* Positions 1..MaxCasePos of an input text are upper-cased independently.
MaxCasePos == 2
\* Field codes run from -1 to MaxCode, plus the tests' code 70.
MaxCode == 7
\* FromCandles is given slices of up to MaxCandles candles.
MaxCandles == 3

(***************************************************************************)
(* Strings.                                                                *)
(***************************************************************************)
Ch(s, i) == SubSeq(s, i, i)

RECURSIVE IndexOf(_, _, _)
IndexOf(s, c, i) ==
    IF i > Len(s) THEN 0
    ELSE IF Ch(s, i) = c THEN i
    ELSE IndexOf(s, c, i + 1)

UpperChars == "ABCDEFGHIJKLMNOPQRSTUVWXYZ"
LowerChars == "abcdefghijklmnopqrstuvwxyz"

ToLowerChar(c) ==
    LET k == IndexOf(UpperChars, c, 1)
    IN  IF k = 0 THEN c ELSE Ch(LowerChars, k)

ToUpperChar(c) ==
    LET k == IndexOf(LowerChars, c, 1)
    IN  IF k = 0 THEN c ELSE Ch(UpperChars, k)

RECURSIVE MapLower(_, _)
MapLower(s, i) ==
    IF i > Len(s) THEN "" ELSE ToLowerChar(Ch(s, i)) \o MapLower(s, i + 1)

\* strings.ToLower on ASCII input.
strings_ToLower(s) == MapLower(s, 1)

(***************************************************************************)
(* encoding/json, as far as a Go string is marshalled and unmarshalled.    *)
(***************************************************************************)
nil == "nil"
SyntaxError == "json.SyntaxError"
UnmarshalTypeError == "json.UnmarshalTypeError"

\* Printable ASCII in code point order: U+0020 .. U+005F and U+0061 .. U+007E.
AsciiLo == " !\"#$%&'()*+,-./0123456789:;<=>?@ABCDEFGHIJKLMNOPQRSTUVWXYZ[\\]^_"
AsciiHi == "abcdefghijklmnopqrstuvwxyz{|}~"

HexDigits == "0123456789abcdef"

IsWS(c) == c \in {" ", "\t", "\n", "\r"}
IsDigit(c) == c \in {"0", "1", "2", "3", "4", "5", "6", "7", "8", "9"}
IsHex(c) == IndexOf(HexDigits, ToLowerChar(c), 1) # 0
HexVal(c) == IndexOf(HexDigits, ToLowerChar(c), 1) - 1

\* The character a \uXXXX escape stands for; a rune outside these tables is
\* outside the inputs of the model and is read as "?".
RuneOf(h) ==
    LET cp == HexVal(Ch(h, 1)) * 4096 + HexVal(Ch(h, 2)) * 256
              + HexVal(Ch(h, 3)) * 16 + HexVal(Ch(h, 4))
    IN  IF cp >= 32 /\ cp <= 95 THEN Ch(AsciiLo, cp - 31)
        ELSE IF cp >= 97 /\ cp <= 126 THEN Ch(AsciiHi, cp - 96)
        ELSE "?"

\* The character a two-byte escape stands for (\b has no TLA+ literal and is
\* read as "?").
Unescape(e) ==
    CASE e = "n" -> "\n"
      [] e = "t" -> "\t"
      [] e = "r" -> "\r"
      [] e = "f" -> "\f"
      [] e = "b" -> "?"
      [] OTHER   -> e

\* What a scan returns: the position after the value (0: no value), its
\* kind and, for a string, its text.
Scanned(end, kind, val) == [end |-> end, kind |-> kind, val |-> val]
Bad == Scanned(0, "invalid", "")

RECURSIVE SkipWS(_, _)
SkipWS(d, i) ==
    IF i <= Len(d) /\ IsWS(Ch(d, i)) THEN SkipWS(d, i + 1) ELSE i

\* Scans a string literal from position i, after its opening quote; acc is
\* the text decoded so far.
RECURSIVE ScanString(_, _, _)
RECURSIVE ScanStringChar(_, _, _, _)
RECURSIVE ScanEscape(_, _, _, _)
ScanString(d, i, acc) ==
    IF i > Len(d) THEN Bad ELSE ScanStringChar(d, i, acc, Ch(d, i))

\* c is the character at i.
ScanStringChar(d, i, acc, c) ==
    IF c = "\"" THEN Scanned(i + 1, "string", acc)
    ELSE IF c = "\\"
         THEN IF i + 1 > Len(d) THEN Bad
              ELSE ScanEscape(d, i, acc, Ch(d, i + 1))
    ELSE IF c \in {"\t", "\n", "\r", "\f"} THEN Bad
    ELSE ScanString(d, i + 1, acc \o c)

\* e is the character after the backslash at i.
ScanEscape(d, i, acc, e) ==
    IF e \in {"\"", "\\", "/", "b", "f", "n", "r", "t"}
    THEN ScanString(d, i + 2, acc \o Unescape(e))
    ELSE IF /\ e = "u"
            /\ i + 5 <= Len(d)
            /\ \A k \in 2 .. 5 : IsHex(Ch(d, i + k))
    THEN ScanString(d, i + 6, acc \o RuneOf(SubSeq(d, i + 2, i + 5)))
    ELSE Bad

RECURSIVE ScanDigits(_, _)
ScanDigits(d, i) ==
    IF i <= Len(d) /\ IsDigit(Ch(d, i)) THEN ScanDigits(d, i + 1) ELSE i

Is(d, i, cs) == i <= Len(d) /\ Ch(d, i) \in cs

\* The exponent's digits start at e and end before f.
ScanExpEnd(e, f) == IF f = e THEN 0 ELSE f

\* The exponent, if any, starts at c.
ScanExp(d, c) ==
    IF ~Is(d, c, {"e", "E"}) THEN c
    ELSE IF Is(d, c + 1, {"+", "-"})
         THEN ScanExpEnd(c + 2, ScanDigits(d, c + 2))
         ELSE ScanExpEnd(c + 1, ScanDigits(d, c + 1))

\* The fraction's digits start at s and end before c.
ScanFracEnd(d, s, c) == IF c = s THEN 0 ELSE ScanExp(d, c)

\* The integer part starts at a and ends before b.
ScanIntEnd(d, a, b) ==
    IF b = a THEN 0
    ELSE IF Is(d, b, {"."}) THEN ScanFracEnd(d, b + 1, ScanDigits(d, b + 1))
    ELSE ScanExp(d, b)

\* The integer part starts at a.
ScanInt(d, a) ==
    IF Is(d, a, {"0"}) THEN ScanIntEnd(d, a, a + 1)
    ELSE ScanIntEnd(d, a, ScanDigits(d, a))

\* Scans a number from position i: the position after it, 0 when none.
ScanNumber(d, i) ==
    IF Is(d, i, {"-"}) THEN ScanInt(d, i + 1) ELSE ScanInt(d, i)

HasAt(d, i, w) == i + Len(w) - 1 <= Len(d) /\ SubSeq(d, i, i + Len(w) - 1) = w

RECURSIVE ScanValue(_, _)
RECURSIVE ScanValueAt(_, _)
RECURSIVE ScanArray(_, _)
RECURSIVE ScanElems(_, _)
RECURSIVE ScanElemEnd(_, _)
RECURSIVE ScanElemSep(_, _)
RECURSIVE ScanObject(_, _)
RECURSIVE ScanMembers(_, _)
RECURSIVE ScanKey(_, _)
RECURSIVE ScanKeyEnd(_, _)
RECURSIVE ScanColon(_, _)
RECURSIVE ScanMemberEnd(_, _)
RECURSIVE ScanMemberSep(_, _)

\* Scans one JSON value from position i, leading white space included.
ScanValue(d, i) == ScanValueAt(d, SkipWS(d, i))

\* The value starts at j.
ScanValueAt(d, j) ==
    IF j > Len(d) THEN Bad
    ELSE CASE Is(d, j, {"\""}) -> ScanString(d, j + 1, "")
           [] Is(d, j, {"{"}) -> ScanObject(d, SkipWS(d, j + 1))
           [] Is(d, j, {"["}) -> ScanArray(d, SkipWS(d, j + 1))
           [] Is(d, j, {"-"}) \/ IsDigit(Ch(d, j)) ->
                Scanned(ScanNumber(d, j), "number", "")
           [] HasAt(d, j, "true") -> Scanned(j + 4, "bool", "")
           [] HasAt(d, j, "false") -> Scanned(j + 5, "bool", "")
           [] HasAt(d, j, "null") -> Scanned(j + 4, "null", "")
           [] OTHER -> Bad

\* An array whose first token after "[" is at k.
ScanArray(d, k) ==
    IF Is(d, k, {"]"}) THEN Scanned(k + 1, "array", "")
    ELSE Scanned(ScanElems(d, k), "array", "")

\* The elements of an array from position i: the position after "]", or 0.
ScanElems(d, i) == ScanElemEnd(d, ScanValue(d, i).end)

\* An element ended before e.
ScanElemEnd(d, e) == IF e = 0 THEN 0 ELSE ScanElemSep(d, SkipWS(d, e))

ScanElemSep(d, k) ==
    IF Is(d, k, {"]"}) THEN k + 1
    ELSE IF Is(d, k, {","}) THEN ScanElems(d, k + 1)
    ELSE 0

\* An object whose first token after "{" is at k.
ScanObject(d, k) ==
    IF Is(d, k, {"}"}) THEN Scanned(k + 1, "object", "")
    ELSE Scanned(ScanMembers(d, k), "object", "")

\* The members of an object from position i: the position after "}", or 0.
ScanMembers(d, i) == ScanKey(d, SkipWS(d, i))

\* A member's key starts at j.
ScanKey(d, j) ==
    IF Is(d, j, {"\""}) THEN ScanKeyEnd(d, ScanString(d, j + 1, "").end)
    ELSE 0

\* A member's key ended before e.
ScanKeyEnd(d, e) == IF e = 0 THEN 0 ELSE ScanColon(d, SkipWS(d, e))

ScanColon(d, c) ==
    IF Is(d, c, {":"}) THEN ScanMemberEnd(d, ScanValue(d, c + 1).end)
    ELSE 0

\* A member's value ended before e.
ScanMemberEnd(d, e) == IF e = 0 THEN 0 ELSE ScanMemberSep(d, SkipWS(d, e))

ScanMemberSep(d, k) ==
    IF Is(d, k, {"}"}) THEN k + 1
    ELSE IF Is(d, k, {","}) THEN ScanMembers(d, k + 1)
    ELSE 0

\* What json.Unmarshal stores for the scanned value v: the error and f after.
Decoded(d, old, v) ==
    IF v.end = 0 THEN [err |-> SyntaxError, f |-> old]
    ELSE IF SkipWS(d, v.end) <= Len(d) THEN [err |-> SyntaxError, f |-> old]
    ELSE CASE v.kind = "string" -> [err |-> nil, f |-> v.val]
           [] v.kind = "null"   -> [err |-> nil, f |-> old]
           [] OTHER             -> [err |-> UnmarshalTypeError, f |-> old]

\* json.Unmarshal(d, &f) for f a string holding old: the error and f after.
json_Unmarshal(d, old) == Decoded(d, old, ScanValue(d, 1))

RECURSIVE EscapeFrom(_, _)
EscapeFrom(v, i) ==
    IF i > Len(v) THEN ""
    ELSE LET c == Ch(v, i)
             e == CASE c = "\"" -> "\\\""
                    [] c = "\\" -> "\\\\"
                    [] c = "\n" -> "\\n"
                    [] c = "\r" -> "\\r"
                    [] c = "\t" -> "\\t"
                    [] c = "\f" -> "\\u000c"
                    [] c = "<"  -> "\\u003c"
                    [] c = ">"  -> "\\u003e"
                    [] c = "&"  -> "\\u0026"
                    [] OTHER    -> c
         IN  e \o EscapeFrom(v, i + 1)

\* json.Marshal(v) for a string v.
json_Marshal(v) == [bytes |-> "\"" \o EscapeFrom(v, 1) \o "\"", err |-> nil]

(***************************************************************************)
(* Candle fields (src/types.go, first variant).                            *)
(***************************************************************************)
CandleOpen == 1
CandleHigh == 2
CandleLow == 3
CandleClose == 4
CandleVolume == 5

ErrInvalidCandleField == "invalid candle field"

\* A mutation of CandleField_Validate: the volume case is missing.
CandleField_Validate_NoVolume(f) ==
    CASE f \in {CandleOpen, CandleHigh, CandleLow, CandleClose} -> nil
      [] OTHER -> ErrInvalidCandleField

CandleField_Validate(f) ==
    CASE f \in {CandleOpen, CandleHigh, CandleLow, CandleClose, CandleVolume} -> nil
      [] OTHER -> ErrInvalidCandleField

\* A mutation of CandleField_MarshalJSON_switch: close gives the token of low.
CandleField_MarshalJSON_switch_CloseAsLow(f) ==
    CASE f = CandleOpen   -> [v |-> "open", err |-> nil]
      [] f = CandleHigh   -> [v |-> "high", err |-> nil]
      [] f = CandleLow    -> [v |-> "low", err |-> nil]
      [] f = CandleClose  -> [v |-> "low", err |-> nil]
      [] f = CandleVolume -> [v |-> "volume", err |-> nil]
      [] OTHER            -> [v |-> "", err |-> ErrInvalidCandleField]

\* The switch of MarshalJSON: the string v, or the error.
CandleField_MarshalJSON_switch(f) ==
    CASE f = CandleOpen   -> [v |-> "open", err |-> nil]
      [] f = CandleHigh   -> [v |-> "high", err |-> nil]
      [] f = CandleLow    -> [v |-> "low", err |-> nil]
      [] f = CandleClose  -> [v |-> "close", err |-> nil]
      [] f = CandleVolume -> [v |-> "volume", err |-> nil]
      [] OTHER            -> [v |-> "", err |-> ErrInvalidCandleField]

\* A mutation of CandleField_MarshalJSON: the token's bytes, not marshalled.
CandleField_MarshalJSON_Raw(f) ==
    LET s == CandleField_MarshalJSON_switch(f)
    IN  [bytes |-> s.v, err |-> s.err]

\* A mutation of CandleField_MarshalJSON: no default case, v stays empty.
CandleField_MarshalJSON_NoDefault(f) ==
    json_Marshal(CandleField_MarshalJSON_switch(f).v)

CandleField_MarshalJSON(f) ==
    LET s == CandleField_MarshalJSON_switch(f)
    IN  IF s.err # nil THEN [bytes |-> "", err |-> s.err]
        ELSE json_Marshal(s.v)

\* A mutation of CandleField_UnmarshalJSON_switch: no short forms.
CandleField_UnmarshalJSON_switch_LongOnly(f, old) ==
    CASE f = "open"   -> [err |-> nil, cf |-> CandleOpen]
      [] f = "high"   -> [err |-> nil, cf |-> CandleHigh]
      [] f = "low"    -> [err |-> nil, cf |-> CandleLow]
      [] f = "close"  -> [err |-> nil, cf |-> CandleClose]
      [] f = "volume" -> [err |-> nil, cf |-> CandleVolume]
      [] OTHER        -> [err |-> ErrInvalidCandleField, cf |-> old]

\* A mutation of CandleField_UnmarshalJSON_switch: no default case.
CandleField_UnmarshalJSON_switch_NoDefault(f, old) ==
    CASE f \in {"open", "o"}   -> [err |-> nil, cf |-> CandleOpen]
      [] f \in {"high", "h"}   -> [err |-> nil, cf |-> CandleHigh]
      [] f \in {"low", "l"}    -> [err |-> nil, cf |-> CandleLow]
      [] f \in {"close", "c"}  -> [err |-> nil, cf |-> CandleClose]
      [] f \in {"volume", "v"} -> [err |-> nil, cf |-> CandleVolume]
      [] OTHER                 -> [err |-> nil, cf |-> old]

\* A mutation of CandleField_UnmarshalJSON_switch: the volume case is missing.
CandleField_UnmarshalJSON_switch_NoVolume(f, old) ==
    CASE f \in {"open", "o"}   -> [err |-> nil, cf |-> CandleOpen]
      [] f \in {"high", "h"}   -> [err |-> nil, cf |-> CandleHigh]
      [] f \in {"low", "l"}    -> [err |-> nil, cf |-> CandleLow]
      [] f \in {"close", "c"}  -> [err |-> nil, cf |-> CandleClose]
      [] OTHER                 -> [err |-> ErrInvalidCandleField, cf |-> old]

\* The switch of UnmarshalJSON on the lower-cased string f: the error and *cf
\* after, old being *cf before.
CandleField_UnmarshalJSON_switch(f, old) ==
    CASE f \in {"open", "o"}   -> [err |-> nil, cf |-> CandleOpen]
      [] f \in {"high", "h"}   -> [err |-> nil, cf |-> CandleHigh]
      [] f \in {"low", "l"}    -> [err |-> nil, cf |-> CandleLow]
      [] f \in {"close", "c"}  -> [err |-> nil, cf |-> CandleClose]
      [] f \in {"volume", "v"} -> [err |-> nil, cf |-> CandleVolume]
      [] OTHER                 -> [err |-> ErrInvalidCandleField, cf |-> old]

\* A mutation of CandleField_UnmarshalJSON: the string is not lower-cased.
CandleField_UnmarshalJSON_NoLower(old, d) ==
    LET u == json_Unmarshal(d, "")
    IN  IF u.err # nil THEN [err |-> u.err, cf |-> old]
        ELSE CandleField_UnmarshalJSON_switch(u.f, old)

\* A mutation of CandleField_UnmarshalJSON: the error of json.Unmarshal is
\* dropped and the switch runs on the string as it is left.
CandleField_UnmarshalJSON_IgnoreError(old, d) ==
    CandleField_UnmarshalJSON_switch(strings_ToLower(json_Unmarshal(d, "").f), old)

\* A mutation of CandleField_UnmarshalJSON: the default case returns nothing
\* and the method ends with return cf.Validate(), which reads the target.
CandleField_UnmarshalJSON_ValidateTarget(old, d) ==
    LET u == json_Unmarshal(d, "")
        r == CandleField_UnmarshalJSON_switch(strings_ToLower(u.f), old)
    IN  IF u.err # nil THEN [err |-> u.err, cf |-> old]
        ELSE [err |-> CandleField_Validate(r.cf), cf |-> r.cf]

\* A mutation of CandleField_UnmarshalJSON: the method starts with *cf = 0.
CandleField_UnmarshalJSON_ClearFirst(old, d) ==
    LET u == json_Unmarshal(d, "")
    IN  IF u.err # nil THEN [err |-> u.err, cf |-> 0]
        ELSE CandleField_UnmarshalJSON_switch(strings_ToLower(u.f), 0)

CandleField_UnmarshalJSON(old, d) ==
    LET u == json_Unmarshal(d, "")
    IN  IF u.err # nil THEN [err |-> u.err, cf |-> old]
        ELSE CandleField_UnmarshalJSON_switch(strings_ToLower(u.f), old)

(***************************************************************************)
(* Ticker fields (src/types.go, first variant: four fields).               *)
(***************************************************************************)
TickerLast == 1
TickerAsk == 2
TickerBid == 3
TickerChange == 4

ErrInvalidTickerField == "invalid ticker field"

\* A mutation of TickerField_Validate: the change case is missing.
TickerField_Validate_NoChange(f) ==
    CASE f \in {TickerLast, TickerAsk, TickerBid} -> nil
      [] OTHER -> ErrInvalidTickerField

TickerField_Validate(f) ==
    CASE f \in {TickerLast, TickerAsk, TickerBid, TickerChange} -> nil
      [] OTHER -> ErrInvalidTickerField

\* A mutation of TickerField_MarshalJSON_switch: bid gives the token of ask.
TickerField_MarshalJSON_switch_BidAsAsk(f) ==
    CASE f = TickerLast   -> [v |-> "last", err |-> nil]
      [] f = TickerAsk    -> [v |-> "ask", err |-> nil]
      [] f = TickerBid    -> [v |-> "ask", err |-> nil]
      [] f = TickerChange -> [v |-> "change", err |-> nil]
      [] OTHER            -> [v |-> "", err |-> ErrInvalidTickerField]

\* The switch of MarshalJSON: the string v, or the error.
TickerField_MarshalJSON_switch(f) ==
    CASE f = TickerLast   -> [v |-> "last", err |-> nil]
      [] f = TickerAsk    -> [v |-> "ask", err |-> nil]
      [] f = TickerBid    -> [v |-> "bid", err |-> nil]
      [] f = TickerChange -> [v |-> "change", err |-> nil]
      [] OTHER            -> [v |-> "", err |-> ErrInvalidTickerField]

TickerField_MarshalJSON(f) ==
    LET s == TickerField_MarshalJSON_switch(f)
    IN  IF s.err # nil THEN [bytes |-> "", err |-> s.err]
        ELSE json_Marshal(s.v)

\* A mutation of TickerField_UnmarshalJSON_switch: no short forms.
TickerField_UnmarshalJSON_switch_LongOnly(t, old) ==
    CASE t = "last"   -> [err |-> nil, tf |-> TickerLast]
      [] t = "ask"    -> [err |-> nil, tf |-> TickerAsk]
      [] t = "bid"    -> [err |-> nil, tf |-> TickerBid]
      [] t = "change" -> [err |-> nil, tf |-> TickerChange]
      [] OTHER        -> [err |-> ErrInvalidTickerField, tf |-> old]

\* A mutation of TickerField_UnmarshalJSON_switch: the candle token close is
\* taken for change.
TickerField_UnmarshalJSON_switch_CloseToo(t, old) ==
    CASE t \in {"last", "l"}            -> [err |-> nil, tf |-> TickerLast]
      [] t \in {"ask", "a"}             -> [err |-> nil, tf |-> TickerAsk]
      [] t \in {"bid", "b"}             -> [err |-> nil, tf |-> TickerBid]
      [] t \in {"change", "c", "close"} -> [err |-> nil, tf |-> TickerChange]
      [] OTHER                          -> [err |-> ErrInvalidTickerField, tf |-> old]

\* The switch of UnmarshalJSON on the lower-cased string t: the error and *tf
\* after, old being *tf before.
TickerField_UnmarshalJSON_switch(t, old) ==
    CASE t \in {"last", "l"}   -> [err |-> nil, tf |-> TickerLast]
      [] t \in {"ask", "a"}    -> [err |-> nil, tf |-> TickerAsk]
      [] t \in {"bid", "b"}    -> [err |-> nil, tf |-> TickerBid]
      [] t \in {"change", "c"} -> [err |-> nil, tf |-> TickerChange]
      [] OTHER                 -> [err |-> ErrInvalidTickerField, tf |-> old]

TickerField_UnmarshalJSON(old, d) ==
    LET u == json_Unmarshal(d, "")
    IN  IF u.err # nil THEN [err |-> u.err, tf |-> old]
        ELSE TickerField_UnmarshalJSON_switch(strings_ToLower(u.f), old)

(***************************************************************************)
(* shopspring/decimal, as far as the records use it.  A Decimal is         *)
(* value * 10^exp; value is a *big.Int, here <<n>>, or <<>> when nil as in *)
(* the zero Decimal{}.                                                     *)
(***************************************************************************)
Decimal(value, exp) == [value |-> <<value>>, exp |-> exp]

\* Decimal{}: the zero value of the struct.
Decimal_zero == [value |-> <<>>, exp |-> 0]

\* var Zero = New(0, 1)
decimal_Zero == Decimal(0, 1)

decimal_NewFromInt(n) == Decimal(n, 0)

\* strings.IndexAny(s, cs) from position i on; 0 when there is none.
RECURSIVE IndexAny(_, _, _)
IndexAny(s, cs, i) ==
    IF i > Len(s) THEN 0
    ELSE IF Ch(s, i) \in cs THEN i
    ELSE IndexAny(s, cs, i + 1)

DigitVal(c) == IndexOf("0123456789", c, 1) - 1

\* The number the digits of s from position i on add to acc; -1 when one of
\* them is no digit.
RECURSIVE DigitsValue(_, _, _)
DigitsValue(s, i, acc) ==
    IF i > Len(s) THEN acc
    ELSE IF ~IsDigit(Ch(s, i)) THEN -1
    ELSE DigitsValue(s, i + 1, acc * 10 + DigitVal(Ch(s, i)))

Unsigned(s) ==
    IF Len(s) > 0 /\ Ch(s, 1) \in {"+", "-"} THEN SubSeq(s, 2, Len(s)) ELSE s

Signed(s, n) == IF Len(s) > 0 /\ Ch(s, 1) = "-" THEN 0 - n ELSE n

\* strconv.ParseInt(s, 10, 64) on inputs short of overflow.
strconv_ParseInt(s) ==
    IF Unsigned(s) = "" \/ DigitsValue(Unsigned(s), 1, 0) < 0
    THEN [ok |-> FALSE, n |-> 0]
    ELSE [ok |-> TRUE, n |-> Signed(s, DigitsValue(Unsigned(s), 1, 0))]

\* The error of decimal.NewFromString: it names the string.
decimal_Error(s) == "can't convert " \o s \o " to decimal"

\* The exponent after the E of value (0 without one).
ExpOf(value, eIndex) ==
    IF eIndex = 0 THEN [ok |-> TRUE, n |-> 0]
    ELSE strconv_ParseInt(SubSeq(value, eIndex + 1, Len(value)))

\* value up to its E.
MantissaOf(value, eIndex) ==
    IF eIndex = 0 THEN value ELSE SubSeq(value, 1, eIndex - 1)

\* The digits of m after its first point.
FracOf(m, pIndex) ==
    IF pIndex = 0 THEN "" ELSE SubSeq(m, pIndex + 1, Len(m))

\* m without its first point.
IntStringOf(m, pIndex) ==
    IF pIndex = 0 THEN m ELSE SubSeq(m, 1, pIndex - 1) \o FracOf(m, pIndex)

NewFromParts(value, e, frac, parsed) ==
    IF ~e.ok \/ IndexOf(frac, ".", 1) # 0 \/ ~parsed.ok
    THEN [d |-> Decimal_zero, err |-> decimal_Error(value)]
    ELSE [d |-> Decimal(parsed.n, e.n - Len(frac)), err |-> nil]

NewFromMantissa(value, e, m, pIndex) ==
    NewFromParts(value, e, FracOf(m, pIndex), strconv_ParseInt(IntStringOf(m, pIndex)))

NewFromSplit(value, eIndex) ==
    NewFromMantissa(value, ExpOf(value, eIndex), MantissaOf(value, eIndex),
                    IndexOf(MantissaOf(value, eIndex), ".", 1))

\* decimal.NewFromString(value): the Decimal and the error.
decimal_NewFromString(value) == NewFromSplit(value, IndexAny(value, {"E", "e"}, 1))

(***************************************************************************)
(* Candle and ticker records (src/types.go, first variant).                *)
(***************************************************************************)
\* time.Time{}
time_zero == "0001-01-01T00:00:00Z"

\* Candle{}
Candle_zero ==
    [Timestamp |-> time_zero, Open |-> Decimal_zero, High |-> Decimal_zero,
     Low |-> Decimal_zero, Close |-> Decimal_zero, Volume |-> Decimal_zero]

\* A mutation of ParseCandle: the high and low tokens change places.
ParseCandle_LowHigh(t, os, hs, ls, cs, vs) ==
    LET o == decimal_NewFromString(os)
        h == decimal_NewFromString(ls)
        l == decimal_NewFromString(hs)
        c == decimal_NewFromString(cs)
        v == decimal_NewFromString(vs)
    IN  IF o.err # nil THEN [c |-> Candle_zero, err |-> o.err]
        ELSE IF h.err # nil THEN [c |-> Candle_zero, err |-> h.err]
        ELSE IF l.err # nil THEN [c |-> Candle_zero, err |-> l.err]
        ELSE IF c.err # nil THEN [c |-> Candle_zero, err |-> c.err]
        ELSE IF v.err # nil THEN [c |-> Candle_zero, err |-> v.err]
        ELSE [c |-> [Timestamp |-> t, Open |-> o.d, High |-> h.d, Low |-> l.d,
                     Close |-> c.d, Volume |-> v.d],
              err |-> nil]

\* A mutation of ParseCandle: the tokens are parsed into the candle one by
\* one and a failure returns the candle as far as it was filled.
ParseCandle_Partial(t, os, hs, ls, cs, vs) ==
    LET o == decimal_NewFromString(os)
        h == decimal_NewFromString(hs)
        l == decimal_NewFromString(ls)
        c == decimal_NewFromString(cs)
        v == decimal_NewFromString(vs)
        c0 == [Candle_zero EXCEPT !.Timestamp = t]
        c1 == [c0 EXCEPT !.Open = o.d]
        c2 == [c1 EXCEPT !.High = h.d]
        c3 == [c2 EXCEPT !.Low = l.d]
        c4 == [c3 EXCEPT !.Close = c.d]
    IN  IF o.err # nil THEN [c |-> c0, err |-> o.err]
        ELSE IF h.err # nil THEN [c |-> c1, err |-> h.err]
        ELSE IF l.err # nil THEN [c |-> c2, err |-> l.err]
        ELSE IF c.err # nil THEN [c |-> c3, err |-> c.err]
        ELSE IF v.err # nil THEN [c |-> c4, err |-> v.err]
        ELSE [c |-> [c4 EXCEPT !.Volume = v.d], err |-> nil]

\* ParseCandle: the candle and the error.
ParseCandle(t, os, hs, ls, cs, vs) ==
    LET o == decimal_NewFromString(os)
        h == decimal_NewFromString(hs)
        l == decimal_NewFromString(ls)
        c == decimal_NewFromString(cs)
        v == decimal_NewFromString(vs)
    IN  IF o.err # nil THEN [c |-> Candle_zero, err |-> o.err]
        ELSE IF h.err # nil THEN [c |-> Candle_zero, err |-> h.err]
        ELSE IF l.err # nil THEN [c |-> Candle_zero, err |-> l.err]
        ELSE IF c.err # nil THEN [c |-> Candle_zero, err |-> c.err]
        ELSE IF v.err # nil THEN [c |-> Candle_zero, err |-> v.err]
        ELSE [c |-> [Timestamp |-> t, Open |-> o.d, High |-> h.d, Low |-> l.d,
                     Close |-> c.d, Volume |-> v.d],
              err |-> nil]

\* A mutation of CandleField_Extract: close gives the low of the candle.
CandleField_Extract_CloseAsLow(f, c) ==
    CASE f = CandleOpen   -> c.Open
      [] f = CandleHigh   -> c.High
      [] f = CandleLow    -> c.Low
      [] f = CandleClose  -> c.Low
      [] f = CandleVolume -> c.Volume
      [] OTHER            -> decimal_Zero

\* A mutation of CandleField_Extract: the default case gives the volume.
CandleField_Extract_DefaultVolume(f, c) ==
    CASE f = CandleOpen   -> c.Open
      [] f = CandleHigh   -> c.High
      [] f = CandleLow    -> c.Low
      [] f = CandleClose  -> c.Close
      [] OTHER            -> c.Volume

\* A mutation of CandleField_Extract: the volume case is missing.
CandleField_Extract_NoVolume(f, c) ==
    CASE f = CandleOpen   -> c.Open
      [] f = CandleHigh   -> c.High
      [] f = CandleLow    -> c.Low
      [] f = CandleClose  -> c.Close
      [] OTHER            -> decimal_Zero

\* A mutation of CandleField_Extract: a close that is not set gives the open.
CandleField_Extract_CloseOrOpen(f, c) ==
    CASE f = CandleOpen   -> c.Open
      [] f = CandleHigh   -> c.High
      [] f = CandleLow    -> c.Low
      [] f = CandleClose  -> IF c.Close = Decimal_zero THEN c.Open ELSE c.Close
      [] f = CandleVolume -> c.Volume
      [] OTHER            -> decimal_Zero

CandleField_Extract(f, c) ==
    CASE f = CandleOpen   -> c.Open
      [] f = CandleHigh   -> c.High
      [] f = CandleLow    -> c.Low
      [] f = CandleClose  -> c.Close
      [] f = CandleVolume -> c.Volume
      [] OTHER            -> decimal_Zero

\* The loop of FromCandles from candle i on, res being the slice so far.
RECURSIVE FromCandles_loop(_, _, _, _)
FromCandles_loop(cc, f, i, res) ==
    IF i > Len(cc) THEN res
    ELSE FromCandles_loop(cc, f, i + 1, Append(res, CandleField_Extract(f, cc[i])))

\* A mutation of FromCandles: the loop starts at the second candle.
FromCandles_SkipFirst(cc, f) == FromCandles_loop(cc, f, 2, <<>>)

\* FromCandles(cc, cf); a nil slice is the empty sequence.
FromCandles(cc, f) == FromCandles_loop(cc, f, 1, <<>>)

\* A mutation of FromCandles_cc: the loop clears each candle it has read.
FromCandles_cc_Cleared(cc, f) == [i \in DOMAIN cc |-> Candle_zero]

\* The candles of the caller's slice after FromCandles(cc, cf): the slice
\* shares them with the caller, the loop copies each into c, hands the copy
\* to Extract and stores to none.
FromCandles_cc(cc, f) == cc

\* Ticker{}
Ticker_zero ==
    [Last |-> Decimal_zero, Ask |-> Decimal_zero, Bid |-> Decimal_zero,
     Change |-> Decimal_zero]

\* A mutation of ParseTicker: the ask and bid tokens change places.
ParseTicker_BidAsk(ls, as, bs, cs) ==
    LET l == decimal_NewFromString(ls)
        a == decimal_NewFromString(bs)
        b == decimal_NewFromString(as)
        c == decimal_NewFromString(cs)
    IN  IF l.err # nil THEN [t |-> Ticker_zero, err |-> l.err]
        ELSE IF a.err # nil THEN [t |-> Ticker_zero, err |-> a.err]
        ELSE IF b.err # nil THEN [t |-> Ticker_zero, err |-> b.err]
        ELSE IF c.err # nil THEN [t |-> Ticker_zero, err |-> c.err]
        ELSE [t |-> [Last |-> l.d, Ask |-> a.d, Bid |-> b.d, Change |-> c.d],
              err |-> nil]

\* ParseTicker: the ticker and the error.
ParseTicker(ls, as, bs, cs) ==
    LET l == decimal_NewFromString(ls)
        a == decimal_NewFromString(as)
        b == decimal_NewFromString(bs)
        c == decimal_NewFromString(cs)
    IN  IF l.err # nil THEN [t |-> Ticker_zero, err |-> l.err]
        ELSE IF a.err # nil THEN [t |-> Ticker_zero, err |-> a.err]
        ELSE IF b.err # nil THEN [t |-> Ticker_zero, err |-> b.err]
        ELSE IF c.err # nil THEN [t |-> Ticker_zero, err |-> c.err]
        ELSE [t |-> [Last |-> l.d, Ask |-> a.d, Bid |-> b.d, Change |-> c.d],
              err |-> nil]

\* A mutation of TickerField_Extract: bid gives the ask of the ticker.
TickerField_Extract_BidAsAsk(f, t) ==
    CASE f = TickerLast   -> t.Last
      [] f = TickerAsk    -> t.Ask
      [] f = TickerBid    -> t.Ask
      [] f = TickerChange -> t.Change
      [] OTHER            -> decimal_Zero

TickerField_Extract(f, t) ==
    CASE f = TickerLast   -> t.Last
      [] f = TickerAsk    -> t.Ask
      [] f = TickerBid    -> t.Bid
      [] f = TickerChange -> t.Change
      [] OTHER            -> decimal_Zero

(***************************************************************************)
(* The codec of src/unnamed/part_001: four candle fields, CandleOpen to    *)
(* CandleClose, and three ticker fields, TickerLast to TickerBid, with the *)
(* codes they have above; errors made by errors.New.                       *)
(***************************************************************************)
Part001_CandleFields == {CandleOpen, CandleHigh, CandleLow, CandleClose}
Part001_TickerFields == {TickerLast, TickerAsk, TickerBid}

\* errors.New("undefined candle field"), errors.New("undefined ticker field")
Part001_UndefinedCandleField == "undefined candle field"
Part001_UndefinedTickerField == "undefined ticker field"

\* MarshalJSON: the bytes of the token as they are, or nil and the error.
Part001_CandleField_MarshalJSON(f) ==
    CASE f = CandleOpen  -> [bytes |-> "open", err |-> nil]
      [] f = CandleHigh  -> [bytes |-> "high", err |-> nil]
      [] f = CandleLow   -> [bytes |-> "low", err |-> nil]
      [] f = CandleClose -> [bytes |-> "close", err |-> nil]
      [] OTHER           -> [bytes |-> "", err |-> Part001_UndefinedCandleField]

\* The switch of UnmarshalJSON on the lower-cased string f.
Part001_CandleField_UnmarshalJSON_switch(f, old) ==
    CASE f \in {"open", "o"}  -> [err |-> nil, cf |-> CandleOpen]
      [] f \in {"high", "h"}  -> [err |-> nil, cf |-> CandleHigh]
      [] f \in {"low", "l"}   -> [err |-> nil, cf |-> CandleLow]
      [] f \in {"close", "c"} -> [err |-> nil, cf |-> CandleClose]
      [] OTHER                -> [err |-> Part001_UndefinedCandleField, cf |-> old]

Part001_CandleField_UnmarshalJSON(old, d) ==
    LET u == json_Unmarshal(d, "")
    IN  IF u.err # nil THEN [err |-> u.err, cf |-> old]
        ELSE Part001_CandleField_UnmarshalJSON_switch(strings_ToLower(u.f), old)

Part001_TickerField_MarshalJSON(f) ==
    CASE f = TickerLast -> [bytes |-> "last", err |-> nil]
      [] f = TickerAsk  -> [bytes |-> "ask", err |-> nil]
      [] f = TickerBid  -> [bytes |-> "bid", err |-> nil]
      [] OTHER          -> [bytes |-> "", err |-> Part001_UndefinedTickerField]

Part001_TickerField_UnmarshalJSON_switch(t, old) ==
    CASE t \in {"last", "l"} -> [err |-> nil, tf |-> TickerLast]
      [] t \in {"ask", "a"}  -> [err |-> nil, tf |-> TickerAsk]
      [] t \in {"bid", "b"}  -> [err |-> nil, tf |-> TickerBid]
      [] OTHER               -> [err |-> Part001_UndefinedTickerField, tf |-> old]

Part001_TickerField_UnmarshalJSON(old, d) ==
    LET u == json_Unmarshal(d, "")
    IN  IF u.err # nil THEN [err |-> u.err, tf |-> old]
        ELSE Part001_TickerField_UnmarshalJSON_switch(strings_ToLower(u.f), old)

(***************************************************************************)
(* Parsing into a candle the caller holds (src/types.go, second variant).  *)
(***************************************************************************)
\* NewCandle(timestamp)
NewCandle(timestamp) == [Candle_zero EXCEPT !.Timestamp = timestamp]

\* A mutation of Candle_Parse: each token is stored as soon as it is parsed.
Candle_Parse_AsItGoes(c, opn, hgh, low, cls, vol) ==
    LET o == decimal_NewFromString(opn)
        h == decimal_NewFromString(hgh)
        l == decimal_NewFromString(low)
        clsD == decimal_NewFromString(cls)
        v == decimal_NewFromString(vol)
        c1 == [c EXCEPT !.Open = o.d]
        c2 == [c1 EXCEPT !.High = h.d]
        c3 == [c2 EXCEPT !.Low = l.d]
        c4 == [c3 EXCEPT !.Close = clsD.d]
    IN  IF o.err # nil THEN [c |-> c, err |-> o.err]
        ELSE IF h.err # nil THEN [c |-> c1, err |-> h.err]
        ELSE IF l.err # nil THEN [c |-> c2, err |-> l.err]
        ELSE IF clsD.err # nil THEN [c |-> c3, err |-> clsD.err]
        ELSE IF v.err # nil THEN [c |-> c4, err |-> v.err]
        ELSE [c |-> [c4 EXCEPT !.Volume = v.d], err |-> nil]

\* (c *Candle) Parse: *c after the call and the error, c being *c before.
Candle_Parse(c, opn, hgh, low, cls, vol) ==
    LET o == decimal_NewFromString(opn)
        h == decimal_NewFromString(hgh)
        l == decimal_NewFromString(low)
        clsD == decimal_NewFromString(cls)
        v == decimal_NewFromString(vol)
    IN  IF o.err # nil THEN [c |-> c, err |-> o.err]
        ELSE IF h.err # nil THEN [c |-> c, err |-> h.err]
        ELSE IF l.err # nil THEN [c |-> c, err |-> l.err]
        ELSE IF clsD.err # nil THEN [c |-> c, err |-> clsD.err]
        ELSE IF v.err # nil THEN [c |-> c, err |-> v.err]
        ELSE [c |-> [c EXCEPT !.Open = o.d, !.High = h.d, !.Low = l.d,
                              !.Close = clsD.d, !.Volume = v.d],
              err |-> nil]

(***************************************************************************)
(* The text surface and the six-field ticker enumeration.  Their code is   *)
(* not among the sources; src/util_test.go calls them.  The six-field      *)
(* switches are those of src/types.go with the two further fields.         *)
(***************************************************************************)
TickerPercentChange == 5
TickerVolume == 6

CandleField_MarshalText(f) ==
    CASE f = CandleOpen   -> [bytes |-> "open", err |-> nil]
      [] f = CandleHigh   -> [bytes |-> "high", err |-> nil]
      [] f = CandleLow    -> [bytes |-> "low", err |-> nil]
      [] f = CandleClose  -> [bytes |-> "close", err |-> nil]
      [] f = CandleVolume -> [bytes |-> "volume", err |-> nil]
      [] OTHER            -> [bytes |-> "", err |-> ErrInvalidCandleField]

CandleField_UnmarshalText(old, d) ==
    LET f == strings_ToLower(d) IN
    CASE f \in {"open", "o"}   -> [err |-> nil, cf |-> CandleOpen]
      [] f \in {"high", "h"}   -> [err |-> nil, cf |-> CandleHigh]
      [] f \in {"low", "l"}    -> [err |-> nil, cf |-> CandleLow]
      [] f \in {"close", "c"}  -> [err |-> nil, cf |-> CandleClose]
      [] f \in {"volume", "v"} -> [err |-> nil, cf |-> CandleVolume]
      [] OTHER                 -> [err |-> ErrInvalidCandleField, cf |-> old]

TickerField6_Validate(f) ==
    CASE f \in {TickerPercentChange, TickerVolume} -> nil
      [] OTHER -> TickerField_Validate(f)

TickerField6_MarshalText(f) ==
    CASE f = TickerPercentChange -> [bytes |-> "percent_change", err |-> nil]
      [] f = TickerVolume        -> [bytes |-> "volume", err |-> nil]
      [] OTHER ->
            LET s == TickerField_MarshalJSON_switch(f)
            IN  [bytes |-> s.v, err |-> s.err]

TickerField6_UnmarshalText(old, d) ==
    LET t == strings_ToLower(d) IN
    CASE t \in {"percent_change", "pc"} -> [err |-> nil, tf |-> TickerPercentChange]
      [] t \in {"volume", "v"}          -> [err |-> nil, tf |-> TickerVolume]
      [] OTHER                          -> TickerField_UnmarshalJSON_switch(t, old)

\* Ticker{} with the six fields.
Ticker6_zero ==
    [Last |-> Decimal_zero, Ask |-> Decimal_zero, Bid |-> Decimal_zero,
     Change |-> Decimal_zero, PercentChange |-> Decimal_zero,
     Volume |-> Decimal_zero]

\* ParseTicker with the six tokens: ParseTicker of src/types.go, then the two
\* further tokens.
ParseTicker6(ls, as, bs, cs, ps, vs) ==
    LET r == ParseTicker(ls, as, bs, cs)
        p == decimal_NewFromString(ps)
        v == decimal_NewFromString(vs)
    IN  IF r.err # nil THEN [t |-> Ticker6_zero, err |-> r.err]
        ELSE IF p.err # nil THEN [t |-> Ticker6_zero, err |-> p.err]
        ELSE IF v.err # nil THEN [t |-> Ticker6_zero, err |-> v.err]
        ELSE [t |-> [Last |-> r.t.Last, Ask |-> r.t.Ask, Bid |-> r.t.Bid,
                     Change |-> r.t.Change, PercentChange |-> p.d,
                     Volume |-> v.d],
              err |-> nil]

TickerField6_Extract(f, t) ==
    CASE f = TickerPercentChange -> t.PercentChange
      [] f = TickerVolume        -> t.Volume
      [] OTHER                   -> TickerField_Extract(f, t)

(***************************************************************************)
(* Inputs.                                                                 *)
(***************************************************************************)
\* The codes a field variable may hold: any int converts to a field type.
Codes == (-1 .. MaxCode) \cup {70}

RECURSIVE ApplyCaseFrom(_, _, _)
ApplyCaseFrom(t, m, i) ==
    IF i > Len(t) THEN ""
    ELSE (IF i \in m THEN ToUpperChar(Ch(t, i)) ELSE Ch(t, i))
         \o ApplyCaseFrom(t, m, i + 1)

\* t with the positions of m in upper case.
ApplyCase(t, m) == ApplyCaseFrom(t, m, 1)

\* The spellings of t: any of its first MaxCasePos letters in upper case, or
\* all of them.
Spellings(t) ==
    {ApplyCase(t, m) : m \in (SUBSET (1 .. MaxCasePos)) \cup {1 .. Len(t)}}

LongForms ==
    {"open", "high", "low", "close", "volume",
     "last", "ask", "bid", "change", "percent_change"}
ShortForms == {"o", "h", "l", "c", "v", "a", "b", "pc"}
OtherTexts == {"", "xyz", "70", "opn", "lo", "volumes", " open", "p", "cl"}

Texts == UNION {Spellings(t) : t \in LongForms \cup ShortForms \cup OtherTexts}

\* Payloads that are no JSON string, or no JSON at all.
OtherPayloads ==
    {"", "{\"70\"", "70", "null", "true", "{}", "[]", "[\"open\"]",
     "{\"open\":\"o\"}", "open", "\"open", "open\"", "\"open\"x",
     " \"open\" ", "\"\\u006fpen\"", "\"\\u004Fpen\"", "\"ope\\n\"", "\"op\\en\"",
     "-", "07", "7.", "7e", "7.0e+1", "nul", "\"l", "\"\"\"", "\"open\\\"h\""}

Payloads == {json_Marshal(t).bytes : t \in Texts} \cup OtherPayloads

\* The decimals the attributes of a record hold: unset, and two numbers of
\* the tests.
Decimals == {Decimal_zero, decimal_NewFromInt(10), decimal_NewFromInt(30)}

Times == {time_zero, "2020-01-02T03:04:05Z"}

Candles ==
    [Timestamp : Times, Open : Decimals, High : Decimals, Low : Decimals,
     Close : Decimals, Volume : Decimals]

Tickers == [Last : Decimals, Ask : Decimals, Bid : Decimals, Change : Decimals]

Tickers6 ==
    [Last : Decimals, Ask : Decimals, Bid : Decimals, Change : Decimals,
     PercentChange : Decimals, Volume : Decimals]

\* The candles of a slice given to FromCandles: one attribute set each, and
\* one with five different attributes.
SliceCandles ==
    {[Candle_zero EXCEPT !.Open = decimal_NewFromInt(10)],
     [Candle_zero EXCEPT !.Open = decimal_NewFromInt(15)],
     [Timestamp |-> "2020-01-02T03:04:05Z", Open |-> decimal_NewFromInt(5),
      High |-> decimal_NewFromInt(9), Low |-> decimal_NewFromInt(1),
      Close |-> decimal_NewFromInt(7), Volume |-> decimal_NewFromInt(30)]}

\* The slices of at most MaxCandles candles.
CandleSlices == UNION {[1 .. n -> SliceCandles] : n \in 0 .. MaxCandles}

\* The tokens given to ParseCandle and ParseTicker: three decimals, two that
\* are none.
Tokens == {"1", "2.50", "-3e1", "-", "1.2.3"}

(***************************************************************************)
(* The state: the two field variables and the call in hand.  Calls are     *)
(* made one at a time, in any order; Return drops the record of the call.  *)
(* Validate and the encoders have value receivers and are called on any    *)
(* code; a decoder writes through its pointer receiver, to cf or tf.  A    *)
(* decode takes an input of the pool, or the bytes the call before it      *)
(* encoded.  gs holds the calls of the goroutines, where calls are made    *)
(* concurrently.                                                           *)
(***************************************************************************)
Call(op, recv, in, out, err, src) ==
    [op |-> op, recv |-> recv, in |-> in, out |-> out, err |-> err, src |-> src]

\* The goroutines that make calls at the same time, and the call of each:
\* where it stands (pc), its operation, receiver and input, what its target
\* held when it was made (t0), what it returned and what it stored.
Goroutines == {"g1", "g2"}

Go(pc, op, recv, in, t0, out, err, stored) ==
    [pc |-> pc, op |-> op, recv |-> recv, in |-> in, t0 |-> t0, out |-> out,
     err |-> err, stored |-> stored]

GoIdle == Go("idle", "", 0, "", 0, "", nil, <<>>)

\* What the caller holds besides the two field variables: a candle, a slice
\* of candles and a ticker.
Mem(c, cc, t) == [c |-> c, cc |-> cc, t |-> t]

Mem_zero == Mem(Candle_zero, <<>>, Ticker_zero)

Idle == call.op = "idle"

Init ==
    /\ cf \in Codes
    /\ tf \in Codes
    /\ call = Call("idle", 0, "", "", nil, {})
    /\ gs = [g \in Goroutines |-> GoIdle]
    /\ mem = Mem_zero

\* The inputs of a decode: the pool, or the bytes the encode op returned.
Inputs(pool, op) ==
    IF Idle THEN pool ELSE IF call.op = op THEN {call.out} ELSE {}

\* The field whose encoding by op the input is.
Encoded(op) == IF call.op = op THEN {call.recv} ELSE {}

CandleValidate ==
    /\ Idle
    /\ \E f \in Codes :
           call' = Call("CandleField.Validate", f, "", "", CandleField_Validate(f), {})
    /\ UNCHANGED <<cf, tf, gs, mem>>

CandleMarshalJSON ==
    /\ Idle
    /\ \E f \in Codes :
           LET r == CandleField_MarshalJSON(f)
           IN  call' = Call("CandleField.MarshalJSON", f, "", r.bytes, r.err, {})
    /\ UNCHANGED <<cf, tf, gs, mem>>

CandleUnmarshalJSON ==
    \E d \in Inputs(Payloads, "CandleField.MarshalJSON") :
        LET r == CandleField_UnmarshalJSON(cf, d) IN
        /\ cf' = r.cf
        /\ call' = Call("CandleField.UnmarshalJSON", cf, d, "", r.err,
                        Encoded("CandleField.MarshalJSON"))
        /\ UNCHANGED <<tf, gs, mem>>

CandleMarshalText ==
    /\ Idle
    /\ \E f \in Codes :
           LET r == CandleField_MarshalText(f)
           IN  call' = Call("CandleField.MarshalText", f, "", r.bytes, r.err, {})
    /\ UNCHANGED <<cf, tf, gs, mem>>

CandleUnmarshalText ==
    \E d \in Inputs(Texts, "CandleField.MarshalText") :
        LET r == CandleField_UnmarshalText(cf, d) IN
        /\ cf' = r.cf
        /\ call' = Call("CandleField.UnmarshalText", cf, d, "", r.err,
                        Encoded("CandleField.MarshalText"))
        /\ UNCHANGED <<tf, gs, mem>>

TickerValidate ==
    /\ Idle
    /\ \E f \in Codes :
           call' = Call("TickerField.Validate", f, "", "", TickerField_Validate(f), {})
    /\ UNCHANGED <<cf, tf, gs, mem>>

TickerMarshalJSON ==
    /\ Idle
    /\ \E f \in Codes :
           LET r == TickerField_MarshalJSON(f)
           IN  call' = Call("TickerField.MarshalJSON", f, "", r.bytes, r.err, {})
    /\ UNCHANGED <<cf, tf, gs, mem>>

TickerUnmarshalJSON ==
    \E d \in Inputs(Payloads, "TickerField.MarshalJSON") :
        LET r == TickerField_UnmarshalJSON(tf, d) IN
        /\ tf' = r.tf
        /\ call' = Call("TickerField.UnmarshalJSON", tf, d, "", r.err,
                        Encoded("TickerField.MarshalJSON"))
        /\ UNCHANGED <<cf, gs, mem>>

Ticker6Validate ==
    /\ Idle
    /\ \E f \in Codes :
           call' = Call("TickerField6.Validate", f, "", "", TickerField6_Validate(f), {})
    /\ UNCHANGED <<cf, tf, gs, mem>>

Ticker6MarshalText ==
    /\ Idle
    /\ \E f \in Codes :
           LET r == TickerField6_MarshalText(f)
           IN  call' = Call("TickerField6.MarshalText", f, "", r.bytes, r.err, {})
    /\ UNCHANGED <<cf, tf, gs, mem>>

Ticker6UnmarshalText ==
    \E d \in Inputs(Texts, "TickerField6.MarshalText") :
        LET r == TickerField6_UnmarshalText(tf, d) IN
        /\ tf' = r.tf
        /\ call' = Call("TickerField6.UnmarshalText", tf, d, "", r.err,
                        Encoded("TickerField6.MarshalText"))
        /\ UNCHANGED <<cf, gs, mem>>

Return ==
    /\ ~Idle
    /\ call' = Call("idle", 0, "", "", nil, {})
    /\ UNCHANGED <<cf, tf, gs, mem>>

Next ==
    \/ CandleValidate
    \/ CandleMarshalJSON
    \/ CandleUnmarshalJSON
    \/ CandleMarshalText
    \/ CandleUnmarshalText
    \/ TickerValidate
    \/ TickerMarshalJSON
    \/ TickerUnmarshalJSON
    \/ Ticker6Validate
    \/ Ticker6MarshalText
    \/ Ticker6UnmarshalText
    \/ Return

Spec == Init /\ [][Next]_vars

(***************************************************************************)
(* The records: parsing, Extract and FromCandles.  These take and return   *)
(* values and touch neither field variable; cf and tf are the zero values  *)
(* of their declarations.  Calls are made one at a time, as above.         *)
(***************************************************************************)
InitRecords ==
    /\ cf = 0
    /\ tf = 0
    /\ call = Call("idle", 0, "", "", nil, {})
    /\ gs = [g \in Goroutines |-> GoIdle]
    /\ mem = Mem_zero

CallParseCandle ==
    /\ Idle
    /\ \E t \in Times, os \in Tokens, hs \in Tokens, ls \in Tokens,
          cs \in Tokens, vs \in Tokens :
           LET r == ParseCandle(t, os, hs, ls, cs, vs)
           IN  call' = Call("ParseCandle", 0, <<t, os, hs, ls, cs, vs>>, r.c, r.err, {})
    /\ UNCHANGED <<cf, tf, gs, mem>>

CandleExtract ==
    /\ Idle
    /\ \E f \in Codes, c \in Candles :
           call' = Call("CandleField.Extract", f, c, CandleField_Extract(f, c), nil, {})
    /\ UNCHANGED <<cf, tf, gs, mem>>

CallFromCandles ==
    /\ Idle
    /\ \E f \in Codes, cc \in CandleSlices :
           call' = Call("FromCandles", f, cc, FromCandles(cc, f), nil, {})
    /\ UNCHANGED <<cf, tf, gs, mem>>

CallParseTicker ==
    /\ Idle
    /\ \E ls \in Tokens, as \in Tokens, bs \in Tokens, cs \in Tokens :
           LET r == ParseTicker(ls, as, bs, cs)
           IN  call' = Call("ParseTicker", 0, <<ls, as, bs, cs>>, r.t, r.err, {})
    /\ UNCHANGED <<cf, tf, gs, mem>>

TickerExtract ==
    /\ Idle
    /\ \E f \in Codes, t \in Tickers :
           call' = Call("TickerField.Extract", f, t, TickerField_Extract(f, t), nil, {})
    /\ UNCHANGED <<cf, tf, gs, mem>>

CallParseTicker6 ==
    /\ Idle
    /\ \E ls \in Tokens, as \in Tokens, bs \in Tokens, cs \in Tokens,
          ps \in Tokens, vs \in Tokens :
           LET r == ParseTicker6(ls, as, bs, cs, ps, vs)
           IN  call' = Call("ParseTicker6", 0, <<ls, as, bs, cs, ps, vs>>, r.t, r.err, {})
    /\ UNCHANGED <<cf, tf, gs, mem>>

Ticker6Extract ==
    /\ Idle
    /\ \E f \in Codes, t \in Tickers6 :
           call' = Call("TickerField6.Extract", f, t, TickerField6_Extract(f, t), nil, {})
    /\ UNCHANGED <<cf, tf, gs, mem>>

NextRecords ==
    \/ CallParseCandle
    \/ CandleValidate
    \/ CandleMarshalJSON
    \/ CandleExtract
    \/ CallFromCandles
    \/ CallParseTicker
    \/ TickerValidate
    \/ TickerMarshalJSON
    \/ TickerExtract
    \/ CallParseTicker6
    \/ Ticker6Validate
    \/ Ticker6MarshalText
    \/ Ticker6Extract
    \/ Return

SpecRecords == InitRecords /\ [][NextRecords]_vars

(***************************************************************************)
(* The calls that only read.  The caller holds a field in cf and in tf, a  *)
(* candle, a slice of candles and a ticker, and calls Validate, the JSON   *)
(* encoder, Extract and FromCandles on them, in any order and any number   *)
(* of times.  The receivers and the records are passed by value; the slice *)
(* is passed by its header and shares its candles with the caller.         *)
(***************************************************************************)
FrameSlices ==
    {cc \in CandleSlices : \A i, j \in DOMAIN cc : cc[i] = cc[j] => i = j}

FrameTickers == {Ticker_zero, ParseTicker("1", "2.50", "-3e1", "1").t}

InitFrame ==
    /\ cf \in Codes
    /\ tf \in Codes
    /\ call = Call("idle", 0, "", "", nil, {})
    /\ gs = [g \in Goroutines |-> GoIdle]
    /\ mem \in {Mem(c, cc, t) : c \in SliceCandles, cc \in FrameSlices, t \in FrameTickers}

FrameCandleValidate ==
    /\ call' = Call("CandleField.Validate", cf, "", "", CandleField_Validate(cf), {})
    /\ UNCHANGED <<cf, tf, gs, mem>>

FrameCandleMarshalJSON ==
    /\ LET r == CandleField_MarshalJSON(cf)
       IN  call' = Call("CandleField.MarshalJSON", cf, "", r.bytes, r.err, {})
    /\ UNCHANGED <<cf, tf, gs, mem>>

FrameCandleExtract ==
    /\ call' = Call("CandleField.Extract", cf, mem.c, CandleField_Extract(cf, mem.c),
                    nil, {})
    /\ UNCHANGED <<cf, tf, gs, mem>>

FrameFromCandles ==
    /\ call' = Call("FromCandles", cf, mem.cc, FromCandles(mem.cc, cf), nil, {})
    /\ mem' = [mem EXCEPT !.cc = FromCandles_cc(mem.cc, cf)]
    /\ UNCHANGED <<cf, tf, gs>>

FrameTickerValidate ==
    /\ call' = Call("TickerField.Validate", tf, "", "", TickerField_Validate(tf), {})
    /\ UNCHANGED <<cf, tf, gs, mem>>

FrameTickerMarshalJSON ==
    /\ LET r == TickerField_MarshalJSON(tf)
       IN  call' = Call("TickerField.MarshalJSON", tf, "", r.bytes, r.err, {})
    /\ UNCHANGED <<cf, tf, gs, mem>>

FrameTickerExtract ==
    /\ call' = Call("TickerField.Extract", tf, mem.t, TickerField_Extract(tf, mem.t),
                    nil, {})
    /\ UNCHANGED <<cf, tf, gs, mem>>

NextFrame ==
    \/ FrameCandleValidate
    \/ FrameCandleMarshalJSON
    \/ FrameCandleExtract
    \/ FrameFromCandles
    \/ FrameTickerValidate
    \/ FrameTickerMarshalJSON
    \/ FrameTickerExtract

SpecFrame == InitFrame /\ [][NextFrame]_vars

(***************************************************************************)
(* Parsing into a candle.  The caller holds a candle, makes it anew with   *)
(* NewCandle and parses tokens into it through the pointer receiver of     *)
(* Parse, any number of times, so that a parse finds the candle unset or   *)
(* holding the values of a parse before it.  Calls are made one at a time. *)
(***************************************************************************)
ParseTokens == {"1", "-3e1", "-", "1.2.3"}

InitParse ==
    /\ cf = 0
    /\ tf = 0
    /\ call = Call("idle", 0, "", "", nil, {})
    /\ gs = [g \in Goroutines |-> GoIdle]
    /\ mem = Mem_zero

CallNewCandle ==
    /\ Idle
    /\ \E t \in Times :
           /\ mem' = [mem EXCEPT !.c = NewCandle(t)]
           /\ call' = Call("NewCandle", 0, t, NewCandle(t), nil, {})
    /\ UNCHANGED <<cf, tf, gs>>

CandleParse ==
    /\ Idle
    /\ \E opn \in ParseTokens, hgh \in ParseTokens, low \in ParseTokens,
          cls \in ParseTokens, vol \in ParseTokens :
           LET r == Candle_Parse(mem.c, opn, hgh, low, cls, vol) IN
           /\ mem' = [mem EXCEPT !.c = r.c]
           /\ call' = Call("Candle.Parse", mem.c, <<opn, hgh, low, cls, vol>>, "",
                           r.err, {})
    /\ UNCHANGED <<cf, tf, gs>>

NextParse ==
    \/ CallNewCandle
    \/ CandleParse
    \/ Return

SpecParse == InitParse /\ [][NextParse]_vars

(***************************************************************************)
(* The codec of src/unnamed/part_001 in use: as above, one call at a time, *)
(* a decode taking a payload of the pool or the bytes the call before it   *)
(* encoded.                                                                *)
(***************************************************************************)
Part001_CandleMarshalJSON ==
    /\ Idle
    /\ \E f \in Codes :
           LET r == Part001_CandleField_MarshalJSON(f)
           IN  call' = Call("part_001 CandleField.MarshalJSON", f, "", r.bytes, r.err, {})
    /\ UNCHANGED <<cf, tf, gs, mem>>

Part001_CandleUnmarshalJSON ==
    \E d \in Inputs(Payloads, "part_001 CandleField.MarshalJSON") :
        LET r == Part001_CandleField_UnmarshalJSON(cf, d) IN
        /\ cf' = r.cf
        /\ call' = Call("part_001 CandleField.UnmarshalJSON", cf, d, "", r.err,
                        Encoded("part_001 CandleField.MarshalJSON"))
        /\ UNCHANGED <<tf, gs, mem>>

Part001_TickerMarshalJSON ==
    /\ Idle
    /\ \E f \in Codes :
           LET r == Part001_TickerField_MarshalJSON(f)
           IN  call' = Call("part_001 TickerField.MarshalJSON", f, "", r.bytes, r.err, {})
    /\ UNCHANGED <<cf, tf, gs, mem>>

Part001_TickerUnmarshalJSON ==
    \E d \in Inputs(Payloads, "part_001 TickerField.MarshalJSON") :
        LET r == Part001_TickerField_UnmarshalJSON(tf, d) IN
        /\ tf' = r.tf
        /\ call' = Call("part_001 TickerField.UnmarshalJSON", tf, d, "", r.err,
                        Encoded("part_001 TickerField.MarshalJSON"))
        /\ UNCHANGED <<cf, gs, mem>>

Part001_Next ==
    \/ Part001_CandleMarshalJSON
    \/ Part001_CandleUnmarshalJSON
    \/ Part001_TickerMarshalJSON
    \/ Part001_TickerUnmarshalJSON
    \/ Return

Part001_Spec == Init /\ [][Part001_Next]_vars

(***************************************************************************)
(* Concurrent calls.  Each goroutine makes one call at a time; a call is   *)
(* made (its arguments are copied: receivers, strings and slice headers    *)
(* are passed by value), then its body runs, then it returns.  Steps of    *)
(* different goroutines interleave freely.  The goroutines share cf and    *)
(* tf: a receiver may be read from them, and the decoders store to them    *)
(* through their pointer receivers.  The body of a decoder reads its bytes *)
(* into a local string and makes at most one store, of one word.           *)
(***************************************************************************)
GoCodes == {CandleClose, 70}
GoPayloads == {"\"open\"", "\"C\"", "\"xyz\"", "{\"70\""}
GoTickerPayloads == {"\"ask\"", "\"xyz\""}
GoCandles == {c \in SliceCandles : c.Timestamp # time_zero}
GoSlices ==
    {cc \in [1 .. 2 -> SliceCandles] :
        cc[1].Timestamp = time_zero /\ cc[2].Timestamp # time_zero}

InitConcurrent ==
    /\ cf = 0
    /\ tf = 0
    /\ call = Call("idle", 0, "", "", nil, {})
    /\ gs = [g \in Goroutines |-> GoIdle]
    /\ mem = Mem_zero

\* Goroutine g makes the call: t0 is what the target of the call holds now.
Start(g, op, recv, in, t0) ==
    /\ gs[g].pc = "idle"
    /\ gs' = [gs EXCEPT ![g] = Go("called", op, recv, in, t0, "", nil, <<>>)]
    /\ UNCHANGED <<cf, tf, call, mem>>

Running(g, op) == gs[g].pc = "called" /\ gs[g].op = op

\* The body of the call of g ends with these results.
Finish(g, out, err, stored) ==
    gs' = [gs EXCEPT ![g] = [@ EXCEPT !.pc = "done", !.out = out, !.err = err,
                                      !.stored = stored]]

\* What a decoder stored, new being the target after it and old before.
Stored(err, new, old) == IF err = nil \/ new # old THEN <<new>> ELSE <<>>

GoCall(g) ==
    \/ \E f \in GoCodes \cup {cf} : Start(g, "CandleField.Validate", f, "", 0)
    \/ \E f \in GoCodes \cup {cf} : Start(g, "CandleField.MarshalJSON", f, "", 0)
    \/ \E d \in GoPayloads : Start(g, "CandleField.UnmarshalJSON", 0, d, cf)
    \/ \E f \in GoCodes \cup {cf}, c \in GoCandles :
          Start(g, "CandleField.Extract", f, c, 0)
    \/ \E f \in GoCodes \cup {cf}, cc \in GoSlices : Start(g, "FromCandles", f, cc, 0)
    \/ Start(g, "TickerField.Validate", tf, "", 0)
    \/ \E d \in GoTickerPayloads : Start(g, "TickerField.UnmarshalJSON", 0, d, tf)

GoCandleValidate(g) ==
    /\ Running(g, "CandleField.Validate")
    /\ Finish(g, "", CandleField_Validate(gs[g].recv), <<>>)
    /\ UNCHANGED <<cf, tf, call, mem>>

GoCandleMarshalJSON(g) ==
    /\ Running(g, "CandleField.MarshalJSON")
    /\ LET r == CandleField_MarshalJSON(gs[g].recv)
       IN  Finish(g, r.bytes, r.err, <<>>)
    /\ UNCHANGED <<cf, tf, call, mem>>

GoCandleUnmarshalJSON(g) ==
    /\ Running(g, "CandleField.UnmarshalJSON")
    /\ LET r == CandleField_UnmarshalJSON(cf, gs[g].in) IN
       /\ cf' = r.cf
       /\ Finish(g, "", r.err, Stored(r.err, r.cf, cf))
    /\ UNCHANGED <<tf, call, mem>>

GoCandleExtract(g) ==
    /\ Running(g, "CandleField.Extract")
    /\ Finish(g, CandleField_Extract(gs[g].recv, gs[g].in), nil, <<>>)
    /\ UNCHANGED <<cf, tf, call, mem>>

GoFromCandles(g) ==
    /\ Running(g, "FromCandles")
    /\ Finish(g, FromCandles(gs[g].in, gs[g].recv), nil, <<>>)
    /\ UNCHANGED <<cf, tf, call, mem>>

GoTickerValidate(g) ==
    /\ Running(g, "TickerField.Validate")
    /\ Finish(g, "", TickerField_Validate(gs[g].recv), <<>>)
    /\ UNCHANGED <<cf, tf, call, mem>>

GoTickerUnmarshalJSON(g) ==
    /\ Running(g, "TickerField.UnmarshalJSON")
    /\ LET r == TickerField_UnmarshalJSON(tf, gs[g].in) IN
       /\ tf' = r.tf
       /\ Finish(g, "", r.err, Stored(r.err, r.tf, tf))
    /\ UNCHANGED <<cf, call, mem>>

GoReturn(g) ==
    /\ gs[g].pc = "done"
    /\ gs' = [gs EXCEPT ![g] = GoIdle]
    /\ UNCHANGED <<cf, tf, call, mem>>

NextConcurrent ==
    \E g \in Goroutines :
        \/ GoCall(g)
        \/ GoCandleValidate(g)
        \/ GoCandleMarshalJSON(g)
        \/ GoCandleUnmarshalJSON(g)
        \/ GoCandleExtract(g)
        \/ GoFromCandles(g)
        \/ GoTickerValidate(g)
        \/ GoTickerUnmarshalJSON(g)
        \/ GoReturn(g)

SpecConcurrent == InitConcurrent /\ [][NextConcurrent]_vars

(***************************************************************************)
(* The claims.  The tables below are those of the specification (4.1 and   *)
(* the alias table of 4.3), written apart from the switches above.         *)
(***************************************************************************)
CandleFields == {CandleOpen, CandleHigh, CandleLow, CandleClose, CandleVolume}
TickerFields4 == {TickerLast, TickerAsk, TickerBid, TickerChange}
TickerFields6 == TickerFields4 \cup {TickerPercentChange, TickerVolume}

CandleLong ==
    (CandleOpen :> "open") @@ (CandleHigh :> "high") @@ (CandleLow :> "low")
    @@ (CandleClose :> "close") @@ (CandleVolume :> "volume")
CandleShort ==
    (CandleOpen :> "o") @@ (CandleHigh :> "h") @@ (CandleLow :> "l")
    @@ (CandleClose :> "c") @@ (CandleVolume :> "v")
TickerLong ==
    (TickerLast :> "last") @@ (TickerAsk :> "ask") @@ (TickerBid :> "bid")
    @@ (TickerChange :> "change") @@ (TickerPercentChange :> "percent_change")
    @@ (TickerVolume :> "volume")
TickerShort ==
    (TickerLast :> "l") @@ (TickerAsk :> "a") @@ (TickerBid :> "b")
    @@ (TickerChange :> "c") @@ (TickerPercentChange :> "pc")
    @@ (TickerVolume :> "v")

\* A text free of quotes and backslashes as one JSON string.
Quote(t) == "\"" \o t \o "\""
QuoteAll(ts) == {Quote(t) : t \in ts}

CandleTokens == {CandleLong[f] : f \in CandleFields} \cup {CandleShort[f] : f \in CandleFields}
TickerTokens == {TickerLong[f] : f \in TickerFields6} \cup {TickerShort[f] : f \in TickerFields6}

\* Every spelling, in the pool, of the two tokens of a field.
CandleSpelled == [f \in CandleFields |-> Spellings(CandleLong[f]) \cup Spellings(CandleShort[f])]
TickerSpelled == [f \in TickerFields6 |-> Spellings(TickerLong[f]) \cup Spellings(TickerShort[f])]
CandleSpelledJSON == [f \in CandleFields |-> QuoteAll(CandleSpelled[f])]
TickerSpelledJSON == [f \in TickerFields6 |-> QuoteAll(TickerSpelled[f])]

\* The texts of the pool that, lower-cased, are no token of the enumeration.
CandleNonTokens ==
    UNION {Spellings(t) : t \in (LongForms \cup ShortForms \cup OtherTexts) \ CandleTokens}
TickerNonTokens ==
    UNION {Spellings(t) : t \in (LongForms \cup ShortForms \cup OtherTexts) \ TickerTokens}
CandleNonTokensJSON == QuoteAll(CandleNonTokens)
TickerNonTokensJSON == QuoteAll(TickerNonTokens)

Op(name) == call.op = name

\* C1: round trip.  Decoding the bytes Encode returned for a valid field f,
\* with the decoder of the same enumeration and surface, succeeds and leaves
\* exactly f in the target, whatever the target held.
C1_RoundTrip ==
    /\ Op("CandleField.UnmarshalJSON") =>
          \A f \in call.src \cap CandleFields : call.err = nil /\ cf = f
    /\ Op("CandleField.UnmarshalText") =>
          \A f \in call.src \cap CandleFields : call.err = nil /\ cf = f
    /\ Op("TickerField.UnmarshalJSON") =>
          \A f \in call.src \cap TickerFields4 : call.err = nil /\ tf = f
    /\ Op("TickerField6.UnmarshalText") =>
          \A f \in call.src \cap TickerFields6 : call.err = nil /\ tf = f

C1_Witness ==
    /\ Op("CandleField.UnmarshalJSON")
    /\ call.src = {CandleVolume}
    /\ call.recv = 70
    /\ cf = CandleVolume

\* C2: CandleField.Validate returns nil exactly for the five candle fields and
\* ErrInvalidCandleField for every other code (0, negative, above, 70).
C2_CandleValidate ==
    Op("CandleField.Validate") =>
        IF call.recv \in CandleFields THEN call.err = nil
        ELSE call.err = ErrInvalidCandleField

C2_Witness ==
    /\ Op("CandleField.Validate")
    /\ call.recv = 70
    /\ call.err = ErrInvalidCandleField

C4_CandleEncode ==
    /\ Op("CandleField.MarshalJSON") =>
          IF call.recv \in CandleFields
          THEN call.err = nil /\ call.out = Quote(CandleLong[call.recv])
          ELSE call.err = ErrInvalidCandleField /\ call.out = ""
    /\ Op("CandleField.MarshalText") =>
          IF call.recv \in CandleFields
          THEN call.err = nil /\ call.out = CandleLong[call.recv]
          ELSE call.err = ErrInvalidCandleField /\ call.out = ""

C4_Witness ==
    /\ Op("CandleField.MarshalJSON")
    /\ call.recv = CandleClose
    /\ call.out = "\"close\""

C7_CandleDecode ==
    \A f \in CandleFields :
        /\ Op("CandleField.UnmarshalJSON")
           /\ call.in \in {Quote(CandleLong[f]), Quote(CandleShort[f])} =>
              call.err = nil /\ cf = f
        /\ Op("CandleField.UnmarshalText")
           /\ call.in \in {CandleLong[f], CandleShort[f]} =>
              call.err = nil /\ cf = f

C7_Witness ==
    /\ Op("CandleField.UnmarshalJSON")
    /\ call.in = "\"c\""
    /\ call.recv = CandleOpen
    /\ cf = CandleClose

C9_CaseInsensitive ==
    /\ \A f \in CandleFields :
          /\ Op("CandleField.UnmarshalJSON") /\ call.in \in CandleSpelledJSON[f] =>
                call.err = nil /\ cf = f
          /\ Op("CandleField.UnmarshalText") /\ call.in \in CandleSpelled[f] =>
                call.err = nil /\ cf = f
    /\ \A f \in TickerFields4 :
          Op("TickerField.UnmarshalJSON") /\ call.in \in TickerSpelledJSON[f] =>
              call.err = nil /\ tf = f
    /\ \A f \in TickerFields6 :
          Op("TickerField6.UnmarshalText") /\ call.in \in TickerSpelled[f] =>
              call.err = nil /\ tf = f

C9_Witness ==
    /\ Op("CandleField.UnmarshalJSON")
    /\ call.in = "\"CLOSE\""
    /\ call.recv = 70
    /\ cf = CandleClose

\* C10: a text that, lower-cased, is no long form and no short form of the
\* enumeration is refused with the enumeration's invalid-field error, and the
\* target keeps what it held.
C10_UnknownText ==
    /\ Op("CandleField.UnmarshalJSON") /\ call.in \in CandleNonTokensJSON =>
          call.err = ErrInvalidCandleField /\ cf = call.recv
    /\ Op("CandleField.UnmarshalText") /\ call.in \in CandleNonTokens =>
          call.err = ErrInvalidCandleField /\ cf = call.recv
    /\ Op("TickerField.UnmarshalJSON") /\ call.in \in TickerNonTokensJSON =>
          call.err = ErrInvalidTickerField /\ tf = call.recv
    /\ Op("TickerField6.UnmarshalText") /\ call.in \in TickerNonTokens =>
          call.err = ErrInvalidTickerField /\ tf = call.recv

C10_Witness ==
    /\ Op("CandleField.UnmarshalJSON")
    /\ call.in = "\"XYZ\""
    /\ call.recv = CandleLow
    /\ call.err = ErrInvalidCandleField

\* Payloads that are not one JSON value: unterminated, unquoted, cut short,
\* followed by further text, or with an escape JSON does not have.  Several
\* hold the token open.
MalformedPayloads ==
    {"", "{\"70\"", "open", "\"open", "open\"", "\"open\"x", "\"op\\en\"",
     "-", "07", "7.", "7e", "nul", "\"l", "\"\"\""}

\* C11: UnmarshalJSON of a payload that is not well-formed JSON fails with the
\* syntax error of json.Unmarshal, which is not the invalid-field error, and
\* the target is left as it was, also when the payload holds a field token;
\* the well-formed string "70" fails with the invalid-field error.
C11_MalformedFirst ==
    /\ SyntaxError \notin {nil, ErrInvalidCandleField, ErrInvalidTickerField}
    /\ Op("CandleField.UnmarshalJSON") =>
          /\ call.in \in MalformedPayloads =>
                call.err = SyntaxError /\ cf = call.recv
          /\ call.in = "\"70\"" => call.err = ErrInvalidCandleField
    /\ Op("TickerField.UnmarshalJSON") =>
          /\ call.in \in MalformedPayloads =>
                call.err = SyntaxError /\ tf = call.recv
          /\ call.in = "\"70\"" => call.err = ErrInvalidTickerField

C11_Witness ==
    /\ Op("CandleField.UnmarshalJSON")
    /\ call.in = "{\"70\""
    /\ call.recv = CandleHigh
    /\ call.err = SyntaxError
    /\ cf = CandleHigh

\* The attribute each field names (4.1, 4.4).
CandleAttr ==
    (CandleOpen :> "Open") @@ (CandleHigh :> "High") @@ (CandleLow :> "Low")
    @@ (CandleClose :> "Close") @@ (CandleVolume :> "Volume")
TickerAttr ==
    (TickerLast :> "Last") @@ (TickerAsk :> "Ask") @@ (TickerBid :> "Bid")
    @@ (TickerChange :> "Change") @@ (TickerPercentChange :> "PercentChange")
    @@ (TickerVolume :> "Volume")

\* C12: Extract of a valid candle field returns the attribute of the candle
\* that the field names, whatever the candle holds.
C12_CandleExtract ==
    Op("CandleField.Extract") /\ call.recv \in CandleFields =>
        call.out = call.in[CandleAttr[call.recv]]

C12_Witness ==
    /\ Op("CandleField.Extract")
    /\ call.recv = CandleClose
    /\ call.in.Close = decimal_NewFromInt(30)
    /\ call.in.Low = decimal_NewFromInt(10)
    /\ call.in.Volume = decimal_NewFromInt(10)
    /\ call.out = decimal_NewFromInt(30)

C14_ExtractZero ==
    /\ Op("CandleField.Extract") =>
          /\ call.err = nil
          /\ call.recv \notin CandleFields => call.out = decimal_Zero
    /\ Op("TickerField6.Extract") =>
          /\ call.err = nil
          /\ call.recv \notin TickerFields6 => call.out = decimal_Zero
    /\ Op("TickerField.Extract") =>
          /\ call.err = nil
          /\ call.recv \notin TickerFields6 => call.out = decimal_Zero

C14_Witness ==
    /\ Op("CandleField.Extract")
    /\ call.recv = 70
    /\ \A a \in {"Open", "High", "Low", "Close", "Volume"} :
           call.in[a] = decimal_NewFromInt(30)
    /\ call.out = decimal_Zero

\* A record none of whose attributes is a zero: Extract returns decimal.Zero
\* from it only through its default case.
NoZero(r, attrs) == \A a \in attrs : r[a] \notin {Decimal_zero, decimal_Zero}
CandleAttrs == {CandleAttr[f] : f \in CandleFields}
TickerAttrs4 == {TickerAttr[f] : f \in TickerFields4}
TickerAttrs6 == {TickerAttr[f] : f \in TickerFields6}
FullCandle == CHOOSE c \in Candles : NoZero(c, CandleAttrs)
FullTicker == CHOOSE t \in Tickers : NoZero(t, TickerAttrs4)
FullTicker6 == CHOOSE t \in Tickers6 : NoZero(t, TickerAttrs6)

\* C15: within an enumeration, Validate, Encode and Extract agree on every
\* code: Validate returns nil exactly when Encode returns no error, and
\* exactly when Extract takes the attribute of a record and not its default
\* of decimal.Zero.
C15_Membership ==
    /\ Op("CandleField.Validate") =>
          /\ call.err = nil <=> CandleField_MarshalJSON(call.recv).err = nil
          /\ call.err = nil <=> CandleField_Extract(call.recv, FullCandle) # decimal_Zero
    /\ Op("CandleField.MarshalJSON") =>
          /\ call.err = nil <=> CandleField_Validate(call.recv) = nil
          /\ call.err = nil <=> CandleField_Extract(call.recv, FullCandle) # decimal_Zero
    /\ Op("CandleField.Extract") /\ NoZero(call.in, CandleAttrs) =>
          /\ call.out # decimal_Zero <=> CandleField_Validate(call.recv) = nil
          /\ call.out # decimal_Zero <=> CandleField_MarshalJSON(call.recv).err = nil
    /\ Op("TickerField.Validate") =>
          /\ call.err = nil <=> TickerField_MarshalJSON(call.recv).err = nil
          /\ call.err = nil <=> TickerField_Extract(call.recv, FullTicker) # decimal_Zero
    /\ Op("TickerField.MarshalJSON") =>
          /\ call.err = nil <=> TickerField_Validate(call.recv) = nil
          /\ call.err = nil <=> TickerField_Extract(call.recv, FullTicker) # decimal_Zero
    /\ Op("TickerField.Extract") /\ NoZero(call.in, TickerAttrs4) =>
          /\ call.out # decimal_Zero <=> TickerField_Validate(call.recv) = nil
          /\ call.out # decimal_Zero <=> TickerField_MarshalJSON(call.recv).err = nil
    /\ Op("TickerField6.Validate") =>
          /\ call.err = nil <=> TickerField6_MarshalText(call.recv).err = nil
          /\ call.err = nil <=> TickerField6_Extract(call.recv, FullTicker6) # decimal_Zero
    /\ Op("TickerField6.MarshalText") =>
          /\ call.err = nil <=> TickerField6_Validate(call.recv) = nil
          /\ call.err = nil <=> TickerField6_Extract(call.recv, FullTicker6) # decimal_Zero
    /\ Op("TickerField6.Extract") /\ NoZero(call.in, TickerAttrs6) =>
          /\ call.out # decimal_Zero <=> TickerField6_Validate(call.recv) = nil
          /\ call.out # decimal_Zero <=> TickerField6_MarshalText(call.recv).err = nil

C15_Witness ==
    /\ Op("CandleField.Extract")
    /\ call.recv = CandleVolume
    /\ NoZero(call.in, CandleAttrs)
    /\ call.out = call.in.Volume
    /\ CandleField_Validate(CandleVolume) = nil
    /\ CandleField_MarshalJSON(CandleVolume).err = nil

\* C16: FromCandles returns one decimal per candle of the slice, in the order
\* of the slice: the i-th is Extract of the i-th candle, for a valid field
\* the attribute the field names and for any other code decimal.Zero; the
\* empty slice gives the empty slice.
C16_FromCandles ==
    Op("FromCandles") =>
        /\ Len(call.out) = Len(call.in)
        /\ \A i \in 1 .. Len(call.in) :
              /\ call.out[i] = CandleField_Extract(call.recv, call.in[i])
              /\ call.recv \in CandleFields =>
                    call.out[i] = call.in[i][CandleAttr[call.recv]]
              /\ call.recv \notin CandleFields => call.out[i] = decimal_Zero
        /\ call.in = <<>> => call.out = <<>>

C16_Witness ==
    /\ Op("FromCandles")
    /\ call.recv = CandleOpen
    /\ Len(call.in) = MaxCandles
    /\ call.out[1] = decimal_NewFromInt(10)
    /\ call.out[2] = decimal_NewFromInt(15)
    /\ call.out[MaxCandles] = decimal_NewFromInt(5)

\* The decimal each token of the pool stands for; the other tokens are no
\* decimals.
TokenValue ==
    ("1" :> Decimal(1, 0)) @@ ("2.50" :> Decimal(250, -2)) @@ ("-3e1" :> Decimal(-3, 1))
IsDecimal(s) == s \in DOMAIN TokenValue

\* The first position of the sequence a, from i on, whose token is no decimal.
RECURSIVE FirstBad(_, _)
FirstBad(a, i) ==
    IF i > Len(a) THEN 0 ELSE IF ~IsDecimal(a[i]) THEN i ELSE FirstBad(a, i + 1)

\* C17: ParseCandle returns no error exactly when its five tokens are
\* decimals, and then the candle holds the timestamp given and the values of
\* the tokens as open, high, low, close and volume, in that order.
C17_ParseCandle ==
    Op("ParseCandle") =>
        /\ call.err = nil <=> FirstBad(Tail(call.in), 1) = 0
        /\ call.err = nil =>
              call.out = [Timestamp |-> call.in[1],
                          Open      |-> TokenValue[call.in[2]],
                          High      |-> TokenValue[call.in[3]],
                          Low       |-> TokenValue[call.in[4]],
                          Close     |-> TokenValue[call.in[5]],
                          Volume    |-> TokenValue[call.in[6]]]

C17_Witness ==
    /\ Op("ParseCandle")
    /\ call.in = <<"2020-01-02T03:04:05Z", "1", "2.50", "-3e1", "2.50", "1">>
    /\ call.err = nil
    /\ call.out.High = Decimal(250, -2)
    /\ call.out.Low = Decimal(-3, 1)

\* C18: when a token of ParseCandle is no decimal, the error is that of
\* decimal.NewFromString on the first such token, in the order open, high,
\* low, close, volume, and the candle returned is Candle{}: no attribute of
\* it is set, and its timestamp is not the one given.
C18_ParseCandleFails ==
    Op("ParseCandle") /\ FirstBad(Tail(call.in), 1) # 0 =>
        /\ call.err = decimal_NewFromString(Tail(call.in)[FirstBad(Tail(call.in), 1)]).err
        /\ call.err # nil
        /\ call.out = Candle_zero

C18_Witness ==
    /\ Op("ParseCandle")
    /\ call.in = <<"2020-01-02T03:04:05Z", "1", "2.50", "1.2.3", "1", "-">>
    /\ call.err = "can't convert 1.2.3 to decimal"
    /\ call.out.Timestamp = time_zero
    /\ call.out.Open = Decimal_zero

GoDecoded ==
    ("\"open\"" :> [err |-> nil, stored |-> <<CandleOpen>>])
    @@ ("\"C\"" :> [err |-> nil, stored |-> <<CandleClose>>])
    @@ ("\"xyz\"" :> [err |-> ErrInvalidCandleField, stored |-> <<>>])
    @@ ("{\"70\"" :> [err |-> SyntaxError, stored |-> <<>>])
GoTickerDecoded ==
    ("\"ask\"" :> [err |-> nil, stored |-> <<TickerAsk>>])
    @@ ("\"xyz\"" :> [err |-> ErrInvalidTickerField, stored |-> <<>>])

\* The result of the call i (a record of gs) is the one it has when it runs
\* alone on its arguments, its target holding what it held when it was made.
SameAsAlone(i) ==
    /\ i.op = "CandleField.Validate" =>
          /\ i.err = IF i.recv \in CandleFields THEN nil ELSE ErrInvalidCandleField
          /\ i.stored = <<>>
    /\ i.op = "CandleField.MarshalJSON" =>
          /\ IF i.recv \in CandleFields
             THEN i.err = nil /\ i.out = Quote(CandleLong[i.recv])
             ELSE i.err = ErrInvalidCandleField /\ i.out = ""
          /\ i.stored = <<>>
    /\ i.op = "CandleField.UnmarshalJSON" =>
          /\ i.err = CandleField_UnmarshalJSON(i.t0, i.in).err
          /\ i.stored = Stored(i.err, CandleField_UnmarshalJSON(i.t0, i.in).cf, i.t0)
          /\ i.err = GoDecoded[i.in].err
          /\ i.stored = GoDecoded[i.in].stored
    /\ i.op = "CandleField.Extract" =>
          /\ i.out = IF i.recv \in CandleFields THEN i.in[CandleAttr[i.recv]]
                     ELSE decimal_Zero
          /\ i.err = nil /\ i.stored = <<>>
    /\ i.op = "FromCandles" =>
          /\ Len(i.out) = Len(i.in)
          /\ \A k \in 1 .. Len(i.in) :
                i.out[k] = IF i.recv \in CandleFields
                           THEN i.in[k][CandleAttr[i.recv]] ELSE decimal_Zero
          /\ i.err = nil /\ i.stored = <<>>
    /\ i.op = "TickerField.Validate" =>
          /\ i.err = IF i.recv \in TickerFields4 THEN nil ELSE ErrInvalidTickerField
          /\ i.stored = <<>>
    /\ i.op = "TickerField.UnmarshalJSON" =>
          /\ i.err = TickerField_UnmarshalJSON(i.t0, i.in).err
          /\ i.stored = Stored(i.err, TickerField_UnmarshalJSON(i.t0, i.in).tf, i.t0)
          /\ i.err = GoTickerDecoded[i.in].err
          /\ i.stored = GoTickerDecoded[i.in].stored

\* C20: in every interleaving of the steps of calls made concurrently, with
\* receivers read from and decoders storing to the same two variables, every
\* call that has run returned, and stored, what it does when it runs alone:
\* no body reads a variable another call writes.
C20_Concurrent ==
    \A g \in Goroutines : gs[g].pc = "done" => SameAsAlone(gs[g])

\* Two decodes into the same target, both made before either ran: one is
\* refused, the other stores.
C20_Witness ==
    /\ gs["g1"].pc = "done"
    /\ gs["g1"].op = "CandleField.UnmarshalJSON"
    /\ gs["g1"].in = "\"xyz\""
    /\ gs["g1"].t0 = 0
    /\ gs["g1"].err = ErrInvalidCandleField
    /\ gs["g2"].pc = "done"
    /\ gs["g2"].op = "CandleField.UnmarshalJSON"
    /\ gs["g2"].in = "\"C\""
    /\ gs["g2"].t0 = 0
    /\ gs["g2"].stored = <<CandleClose>>
    /\ cf = CandleClose

\* C21: no call of Validate, of the JSON encoder, of Extract or of
\* FromCandles changes anything the caller holds: the candle, the ticker and
\* the slice of candles it passed (its length, its order and every candle of
\* it) are after the call what they were before it, and so is the field the
\* call was made on.  Holding of every step, it holds of every sequence of
\* calls.
C21_Frame == [][mem' = mem /\ cf' = cf /\ tf' = tf]_vars

\* FromCandles has read a slice of three candles, which the caller still holds.
C21_Witness ==
    /\ Op("FromCandles")
    /\ call.recv = CandleOpen
    /\ Len(call.in) = 3
    /\ call.out = <<decimal_NewFromInt(5), decimal_NewFromInt(10), decimal_NewFromInt(15)>>
    /\ mem.cc = call.in
    /\ cf = call.recv

\* Payloads that are one JSON value but no string: numbers, a boolean, null,
\* objects and arrays, some holding a field token.
NonStringPayloads ==
    {"70", "7.0e+1", "true", "null", "{}", "[]", "[\"open\"]", "{\"open\":\"o\"}"}

\* The errors of json.Unmarshal: the payload is no JSON, or is no string.
MalformedPayload == {SyntaxError, UnmarshalTypeError}

\* C22: UnmarshalJSON of a payload that is not a JSON string, be it no JSON
\* at all or a JSON number, boolean, null, object or array, fails with an
\* error of json.Unmarshal and never with the invalid-field error.
C22_NotAString ==
    /\ MalformedPayload \cap {nil, ErrInvalidCandleField, ErrInvalidTickerField} = {}
    /\ (Op("CandleField.UnmarshalJSON") \/ Op("TickerField.UnmarshalJSON")) =>
          (call.in \in MalformedPayloads \cup NonStringPayloads =>
              call.err \in MalformedPayload)

\* The payload null has been refused as an unknown field.
C22_Witness ==
    /\ Op("CandleField.UnmarshalJSON")
    /\ call.in = "null"
    /\ call.recv = CandleHigh
    /\ call.err = ErrInvalidCandleField
    /\ cf = CandleHigh

\* C23: an UnmarshalJSON that returns an error, of json.Unmarshal or the
\* invalid-field error, leaves the field variable it was called on holding
\* what it held before, whatever code that was; one that returns nil has
\* stored the field that the same payload stores from every other prior value.
C23_FailedDecode ==
    /\ Op("CandleField.UnmarshalJSON") =>
          /\ call.err # nil => cf = call.recv
          /\ call.err = nil =>
                \A old \in Codes :
                    CandleField_UnmarshalJSON(old, call.in) = [err |-> nil, cf |-> cf]
    /\ Op("TickerField.UnmarshalJSON") =>
          /\ call.err # nil => tf = call.recv
          /\ call.err = nil =>
                \A old \in Codes :
                    TickerField_UnmarshalJSON(old, call.in) = [err |-> nil, tf |-> tf]

\* A boolean has been refused and the target, which held a code that is no
\* field, still holds it.
C23_Witness ==
    /\ Op("CandleField.UnmarshalJSON")
    /\ call.in = "true"
    /\ call.recv = 70
    /\ call.err = UnmarshalTypeError
    /\ cf = 70

\* C24: the fields UnmarshalJSON stores are the fields Validate accepts.  A
\* field stored by an UnmarshalJSON that returned nil passes Validate of its
\* enumeration; and a code that has passed Validate is stored by
\* UnmarshalJSON, returning nil, for at least one payload.
C24_DecodeImage ==
    /\ Op("CandleField.UnmarshalJSON") /\ call.err = nil =>
          CandleField_Validate(cf) = nil
    /\ Op("TickerField.UnmarshalJSON") /\ call.err = nil =>
          TickerField_Validate(tf) = nil
    /\ Op("CandleField.Validate") /\ call.err = nil =>
          \E d \in Payloads :
              CandleField_UnmarshalJSON(0, d) = [err |-> nil, cf |-> call.recv]
    /\ Op("TickerField.Validate") /\ call.err = nil =>
          \E d \in Payloads :
              TickerField_UnmarshalJSON(0, d) = [err |-> nil, tf |-> call.recv]

\* Validate has accepted the volume field, the last of the candle fields.
C24_Witness ==
    /\ Op("CandleField.Validate")
    /\ call.recv = CandleVolume
    /\ call.err = nil
    /\ CandleField_UnmarshalJSON(0, "\"V\"") = [err |-> nil, cf |-> CandleVolume]

\* C25: Parse into a candle stores all or nothing.  When one of its five
\* tokens is no decimal it returns an error and the candle holds the
\* timestamp and the five attributes it held before; when all five are
\* decimals it returns nil and the candle holds their values as open, high,
\* low, close and volume, in that order, and the timestamp it held before.
C25_CandleParse ==
    Op("Candle.Parse") =>
        IF FirstBad(call.in, 1) # 0
        THEN call.err # nil /\ mem.c = call.recv
        ELSE /\ call.err = nil
             /\ mem.c = [Timestamp |-> call.recv.Timestamp,
                         Open      |-> TokenValue[call.in[1]],
                         High      |-> TokenValue[call.in[2]],
                         Low       |-> TokenValue[call.in[3]],
                         Close     |-> TokenValue[call.in[4]],
                         Volume    |-> TokenValue[call.in[5]]]

\* A candle that held the values of a parse before has been given four
\* decimals and a last token that is none, and holds what it held.
C25_Witness ==
    /\ Op("Candle.Parse")
    /\ call.in = <<"-3e1", "-3e1", "-3e1", "-3e1", "1.2.3">>
    /\ call.err # nil
    /\ call.recv.Timestamp = "2020-01-02T03:04:05Z"
    /\ call.recv.Open = Decimal(1, 0)
    /\ mem.c = call.recv

\* C26: in the variant of src/unnamed/part_001, the bytes MarshalJSON
\* returns for a valid field are its string in JSON: UnmarshalJSON of the
\* same variant, given them, returns nil and leaves that field in the target.
C26_Part001RoundTrip ==
    /\ Op("part_001 CandleField.UnmarshalJSON") =>
          \A f \in call.src \cap Part001_CandleFields : call.err = nil /\ cf = f
    /\ Op("part_001 TickerField.UnmarshalJSON") =>
          \A f \in call.src \cap Part001_TickerFields : call.err = nil /\ tf = f

\* The bytes MarshalJSON returned for CandleOpen have been refused as no JSON.
C26_Witness ==
    /\ Op("part_001 CandleField.UnmarshalJSON")
    /\ call.src = {CandleOpen}
    /\ call.in = "open"
    /\ call.recv = 70
    /\ call.err = SyntaxError
    /\ cf = 70

\* C27: what Extract returns for a valid field depends on the attribute the
\* field names and on nothing else of the record: every other record that
\* holds the same value in that attribute gives the same result, whatever
\* its other attributes and its timestamp are.  And no code, valid or not,
\* reads the timestamp: the same candle with another timestamp gives the
\* same result.
C27_ExtractOnly ==
    /\ Op("CandleField.Extract") =>
          /\ call.recv \in CandleFields =>
                \A r \in Candles :
                    r[CandleAttr[call.recv]] = call.in[CandleAttr[call.recv]] =>
                        CandleField_Extract(call.recv, r) = call.out
          /\ \A t \in Times :
                CandleField_Extract(call.recv, [call.in EXCEPT !.Timestamp = t]) = call.out
    /\ Op("TickerField.Extract") =>
          (call.recv \in TickerFields4 =>
              \A r \in Tickers :
                  r[TickerAttr[call.recv]] = call.in[TickerAttr[call.recv]] =>
                      TickerField_Extract(call.recv, r) = call.out)

\* The close of a candle whose close is not set has been extracted, its
\* other attributes being set.
C27_Witness ==
    /\ Op("CandleField.Extract")
    /\ call.recv = CandleClose
    /\ call.in.Close = Decimal_zero
    /\ call.in.Open = decimal_NewFromInt(30)
    /\ call.in.Timestamp # time_zero
    /\ call.out = Decimal_zero

\* The tokens of one enumeration that are none of the other, in every
\* spelling of the pool, as JSON strings.
CandleOnlyJSON ==
    QuoteAll(UNION {Spellings(t) : t \in {"open", "o", "high", "h", "low", "close",
                                          "volume", "v"}})
TickerOnlyJSON ==
    QuoteAll(UNION {Spellings(t) : t \in {"last", "ask", "a", "bid", "b", "change"}})

\* What holds after a call of a JSON codec method, of the tokens.
C28_Tokens ==
    /\ Op("CandleField.UnmarshalJSON") =>
          /\ \A f, g \in CandleFields :
                call.in \in CandleSpelledJSON[f] \cap CandleSpelledJSON[g] =>
                    f = g /\ call.err = nil /\ cf = f
          /\ call.in \in QuoteAll(Spellings("c")) => cf = CandleClose
          /\ call.in \in QuoteAll(Spellings("l")) => cf = CandleLow
          /\ call.in \in TickerOnlyJSON =>
                call.err = ErrInvalidCandleField /\ cf = call.recv
    /\ Op("TickerField.UnmarshalJSON") =>
          /\ \A f, g \in TickerFields4 :
                call.in \in TickerSpelledJSON[f] \cap TickerSpelledJSON[g] =>
                    f = g /\ call.err = nil /\ tf = f
          /\ call.in \in QuoteAll(Spellings("c")) => tf = TickerChange
          /\ call.in \in QuoteAll(Spellings("l")) => tf = TickerLast
          /\ call.in \in CandleOnlyJSON =>
                call.err = ErrInvalidTickerField /\ tf = call.recv
    /\ Op("CandleField.MarshalJSON") /\ call.err = nil =>
          \A g \in Codes \ {call.recv} :
              CandleField_MarshalJSON(g) # [bytes |-> call.out, err |-> nil]
    /\ Op("TickerField.MarshalJSON") /\ call.err = nil =>
          \A g \in Codes \ {call.recv} :
              TickerField_MarshalJSON(g) # [bytes |-> call.out, err |-> nil]

\* C28: tokens resolve to one field inside an enumeration and by decoder
\* across the two.  A payload that spells a token of a decoder is the token
\* of one field only, which the decoder stores; two different valid fields
\* never encode to the same bytes; c is close to the candle decoder and
\* change to the ticker decoder, l is low to the one and last to the other;
\* each decoder refuses the tokens that only the other has, with its own
\* error; and a candle decode leaves the ticker field variable as it was, a
\* ticker decode the candle field variable.
C28_Unambiguous ==
    [][/\ C28_Tokens'
       /\ Op("CandleField.UnmarshalJSON")' => tf' = tf
       /\ Op("TickerField.UnmarshalJSON")' => cf' = cf]_vars

\* The ticker decoder has taken C, the candle field variable holding low.
C28_Witness ==
    /\ Op("TickerField.UnmarshalJSON")
    /\ call.in = "\"C\""
    /\ call.recv = 70
    /\ call.err = nil
    /\ tf = TickerChange
    /\ cf = CandleLow

====
